---- MODULE Spec2Model ----
(***************************************************************************)
(* Knowledge Path Visualizer: the progress / unlock model of the two       *)
(* front ends, script.js (direct DOM, keys kpv-progress-<id>) and          *)
(* react_app.js (React, keys kpv-react-progress-<id>).                     *)
(*                                                                         *)
(* JavaScript values are records [t, i, f]: a number i + f/10 (i its       *)
(* floor, f one decimal digit), NaN, or a value of another type.  Strings  *)
(* kept in localStorage are sequences of one-character strings, so that    *)
(* String(..) and parseInt(.., 10) are computed, not assumed inverse.      *)
(***************************************************************************)
EXTENDS Integers, Sequences, FiniteSets, TLC

VARIABLES
  impl,        \* which page is loaded: "dom" (script.js) or "react" (react_app.js)
  dProgress,   \* script.js: node.progress of every node of knowledgeGraph.nodes
  dUnlocked,   \* script.js: node.unlocked
  dStore,      \* localStorage under kpv-progress-<id>: a string, or NoItem
  dModal,      \* script.js: the node the overlay is open for, or NoNode
  rNodes,      \* react_app.js: the nodes state, id -> [progress, unlocked]
  rStore,      \* localStorage under kpv-react-progress-<id>
  rSelected,   \* react_app.js: selectedNode (its id), or NoNode
  rPending,    \* react_app.js: files handed to a FileReader, onload not yet run
  rMounted,    \* react_app.js: the component tree is mounted
  rDownload,   \* react_app.js: the file the last export downloaded, or NoFile
  rExported,   \* the nodes state that export was taken of
  dView,       \* script.js: the three checkboxes, the hidden-links class of the
               \* svg now in #graph-container, the node last dragged
  rView,       \* react_app.js: showActive, showCompleted, showDependencies, the
               \* hidden-links class of the svg, the node last dragged
  seen,        \* the progress and flags of an earlier state of this session, or NoSeen
  edits,       \* progress selections made so far in a session that counts them
  last         \* the handler that ran last, when it was a page load, a progress
               \* selection or a file's onload: its input and how it ended

vars == <<impl, dProgress, dUnlocked, dStore, dModal, dView,
          rNodes, rStore, rSelected, rPending, rMounted, rDownload, rExported, rView,
          seen, edits, last>>

domVars == <<dProgress, dUnlocked, dStore, dModal, dView>>
reactVars == <<rNodes, rStore, rSelected, rPending, rMounted, rDownload, rExported, rView>>

----------------------------------------------------------------------------
(* JavaScript values *)

Num(i) == [t |-> "number", i |-> i, f |-> 0]
Frac(i, f) == [t |-> "number", i |-> i, f |-> f]
NaN == [t |-> "NaN", i |-> 0, f |-> 0]
JsString == [t |-> "string", i |-> 0, f |-> 0]
JsNull == [t |-> "null", i |-> 0, f |-> 0]
JsUndefined == [t |-> "undefined", i |-> 0, f |-> 0]
JsObject == [t |-> "object", i |-> 0, f |-> 0]

\* typeof v
TypeOf(v) ==
  CASE v.t \in {"number", "NaN"} -> "number"
    [] v.t = "string" -> "string"
    [] v.t = "undefined" -> "undefined"
    [] OTHER -> "object"

IsInt(v) == v.t = "number" /\ v.f = 0

\* v >= n for an integer n; false for NaN and for what is not a number
GreaterEq(v, n) == v.t = "number" /\ v.i >= n

\* Math.min(n, v) and Math.max(n, v) for an integer n and a number v
MathMin(n, v) ==
  IF v.t # "number" THEN NaN
  ELSE IF v.i >= n THEN Num(n) ELSE v

MathMax(n, v) ==
  IF v.t # "number" THEN NaN
  ELSE IF v.i < n THEN Num(n) ELSE v

----------------------------------------------------------------------------
(* String(number) and parseInt(string, 10) *)

DigitChars == <<"0", "1", "2", "3", "4", "5", "6", "7", "8", "9">>

RECURSIVE Digits(_)
Digits(n) ==
  IF n < 10 THEN <<DigitChars[n + 1]>>
  ELSE Digits(n \div 10) \o <<DigitChars[(n % 10) + 1]>>

\* String(v) for a number v: sign, integer digits, and the decimal when it has one
String(v) ==
  IF v.t # "number" THEN <<"N", "a", "N">>
  ELSE LET tenths == 10 * v.i + v.f
           mag == IF tenths < 0 THEN -tenths ELSE tenths
           sign == IF tenths < 0 THEN <<"-">> ELSE <<>>
           frac == IF mag % 10 = 0 THEN <<>> ELSE <<".", DigitChars[(mag % 10) + 1]>>
       IN sign \o Digits(mag \div 10) \o frac

DigitValue(c) == CHOOSE d \in 0..9 : DigitChars[d + 1] = c

IsDigit(c) == \E d \in 0..9 : DigitChars[d + 1] = c

RECURSIVE SkipSpaces(_)
SkipSpaces(s) ==
  IF s # <<>> /\ Head(s) = " " THEN SkipSpaces(Tail(s)) ELSE s

\* the longest prefix of s made of digits
RECURSIVE DigitPrefix(_)
DigitPrefix(s) ==
  IF s # <<>> /\ IsDigit(Head(s)) THEN <<Head(s)>> \o DigitPrefix(Tail(s)) ELSE <<>>

RECURSIVE DigitsValue(_)
DigitsValue(s) ==
  IF s = <<>> THEN 0
  ELSE 10 * DigitsValue(SubSeq(s, 1, Len(s) - 1)) + DigitValue(s[Len(s)])

\* parseInt(s, 10): leading blanks, a sign, then digits up to the first other
\* character; NaN when there is no digit
ParseInt(s) ==
  LET t == SkipSpaces(s)
      signed == t # <<>> /\ Head(t) \in {"-", "+"}
      body == IF signed THEN Tail(t) ELSE t
      ds == DigitPrefix(body)
      n == DigitsValue(ds)
  IN IF ds = <<>> THEN NaN
     ELSE IF signed /\ Head(t) = "-" THEN Num(-n) ELSE Num(n)

----------------------------------------------------------------------------
(* The curriculum: the same five topics in both files *)

NoItem == <<"null">>   \* localStorage.getItem of a key never set
NoNode == "null"

Order == <<"basics", "datastructures", "algorithms", "graphs", "machinelearning">>

Ids == {Order[k] : k \in 1..Len(Order)}

knowledgeGraph ==
  [id \in Ids |->
     CASE id = "basics" -> [dependencies |-> <<>>, progress |-> Num(0)]
       [] id = "datastructures" -> [dependencies |-> <<"basics">>, progress |-> Num(0)]
       [] id = "algorithms" -> [dependencies |-> <<"basics">>, progress |-> Num(0)]
       [] id = "graphs" ->
            [dependencies |-> <<"datastructures", "algorithms">>, progress |-> Num(0)]
       [] id = "machinelearning" ->
            [dependencies |-> <<"algorithms">>, progress |-> Num(0)]]

initialNodes == knowledgeGraph

\* the comparison written with a threshold one too low
LowerThreshold == 75 - 1

\* the progress a topic must reach to satisfy a dependent (script.js 99, react_app.js 104)
UnlockThreshold == 75

\* the options of the progress select (react_app.js 185-189); the README of
\* script.js names the same five
SelectOptions == {0, 25, 50, 75, 100}

\* the options a user picks in the sessions explored: one below the threshold,
\* the threshold itself, and completion
UserChoices == {v \in SelectOptions : v \in {0, 75, 100}}

\* reads a user has in flight at once (each Import click makes its own FileReader)
MaxPending == 1

\* progress selections and picked files in a session that counts them
MaxEdits == 2

----------------------------------------------------------------------------
(* What is drawn: the checkboxes of the navigation bar and the svg *)

\* script.js as the page loads: the three checkboxes checked, the svg that
\* renderGraph appends without a class, no node dragged
PageView ==
  [links |-> TRUE, active |-> TRUE, completed |-> TRUE, hiddenLinks |-> FALSE,
   dragged |-> NoNode]

\* renderGraph(): the container is emptied and a new svg appended, with no
\* class; the nodes keep the x and y the simulation or a drag gave them
renderGraph(view) == [view EXCEPT !.hiddenLinks = FALSE]

\* react_app.js as the component mounts
AppView ==
  [showActive |-> TRUE, showCompleted |-> TRUE, showDependencies |-> TRUE,
   hiddenLinks |-> FALSE, dragged |-> NoNode]

\* the effect that draws the graph: a new svg, classed hidden-links when
\* showDependencies is false, over fresh copies of the nodes
useEffect(view) ==
  [view EXCEPT !.hiddenLinks = ~view.showDependencies, !.dragged = NoNode]

\* no earlier state is kept
NoSeen == [kept |-> FALSE, progress |-> <<>>, unlocked |-> <<>>]

----------------------------------------------------------------------------
(* script.js *)

\* computeUnlocks with the comparison written > instead of >=
computeUnlocksStrict(progress) ==
  [id \in Ids |->
     LET deps == knowledgeGraph[id].dependencies
     IN IF Len(deps) = 0 THEN TRUE
        ELSE \A k \in 1..Len(deps) :
               /\ deps[k] \in Ids
               /\ GreaterEq(progress[deps[k]], UnlockThreshold + 1)]

\* a node counted as unlocked only when its dependencies are unlocked as well
RECURSIVE UnlockedTransitively(_, _)
UnlockedTransitively(progress, id) ==
  LET deps == knowledgeGraph[id].dependencies
  IN \A k \in 1..Len(deps) :
       /\ deps[k] \in Ids
       /\ GreaterEq(progress[deps[k]], UnlockThreshold)
       /\ UnlockedTransitively(progress, deps[k])

\* computeUnlocks following the dependencies of the dependencies
computeUnlocksTransitive(progress) ==
  [id \in Ids |-> UnlockedTransitively(progress, id)]

\* computeUnlocks(): the unlocked flag of every node, from the progress values
computeUnlocks(progress) ==
  [id \in Ids |->
     LET deps == knowledgeGraph[id].dependencies
     IN IF Len(deps) = 0 THEN TRUE
        ELSE \A k \in 1..Len(deps) :
               /\ deps[k] \in Ids
               /\ GreaterEq(progress[deps[k]], UnlockThreshold)]

\* loadProgress(): a stored value overwrites the static default
loadProgress(store) ==
  [id \in Ids |->
     IF store[id] # NoItem THEN ParseInt(store[id]) ELSE knowledgeGraph[id].progress]

\* saveProgress(node)
saveProgress(store, id, progress) ==
  [store EXCEPT ![id] = String(progress)]

NoFile == [json |-> "none", entries |-> <<>>]

\* what last records: the handler (op), the topic and value of a selection, the
\* file of an onload, whether the topic was unlocked when its progress was set,
\* whether setItem worked, how the handler ended, and whether it changed any
\* progress or flag in memory
Handler(op, id, val, file, unl, storage, out, changed) ==
  [op |-> op, id |-> id, val |-> val, file |-> file, unl |-> unl,
   storage |-> storage, out |-> out, changed |-> changed]

NoHandler == Handler("none", NoNode, JsUndefined, NoFile, TRUE, "ok", "ok", FALSE)

\* the DOMContentLoaded handler: loadProgress, computeUnlocks, renderGraph.
\* Reloading the page runs it again on the stored keys.
DomLoad ==
  /\ impl = "dom"
  /\ dProgress' = loadProgress(dStore)
  /\ dUnlocked' = computeUnlocks(dProgress')
  /\ dModal' = NoNode
  /\ dView' = PageView
  /\ last' = Handler("load", NoNode, JsUndefined, NoFile, TRUE, "ok", "ok",
                     dProgress' # dProgress)
  /\ UNCHANGED <<impl, seen, dStore, reactVars, edits>>

\* a click on a node of the graph: openModal(d) when d.unlocked.  The overlay
\* covers the graph while it is shown.
DomClick(id) ==
  /\ impl = "dom"
  /\ dModal = NoNode
  /\ dUnlocked[id]
  /\ dModal' = id
  /\ UNCHANGED <<impl, seen, dProgress, dUnlocked, dStore, dView, reactVars, edits>>
  /\ last' = NoHandler

\* select.onchange of the open modal, the option with value v chosen
DomSelect(v) ==
  /\ impl = "dom"
  /\ dModal # NoNode
  /\ LET newVal == ParseInt(String(Num(v)))
     IN /\ dProgress' = [dProgress EXCEPT ![dModal] = newVal]
        /\ dStore' = saveProgress(dStore, dModal, dProgress'[dModal])
        /\ dUnlocked' = computeUnlocks(dProgress')
        /\ dModal' = NoNode
        /\ dView' = renderGraph(dView)
        /\ last' = Handler("select", dModal, Num(v), NoFile, dUnlocked[dModal], "ok", "ok",
                           dProgress' # dProgress)
  /\ UNCHANGED <<impl, seen, reactVars, edits>>

\* the same, in a session that counts its progress selections
DomSelectCounted(v) ==
  /\ edits < MaxEdits
  /\ edits' = edits + 1
  /\ impl = "dom"
  /\ dModal # NoNode
  /\ LET newVal == ParseInt(String(Num(v)))
     IN /\ dProgress' = [dProgress EXCEPT ![dModal] = newVal]
        /\ dStore' = saveProgress(dStore, dModal, dProgress'[dModal])
        /\ dUnlocked' = computeUnlocks(dProgress')
        /\ dModal' = NoNode
        /\ dView' = renderGraph(dView)
        /\ last' = Handler("select", dModal, Num(v), NoFile, dUnlocked[dModal], "ok", "ok",
                           dProgress' # dProgress)
  /\ UNCHANGED <<impl, seen, reactVars>>

\* the close button, or a click on the overlay outside the modal
DomClose ==
  /\ impl = "dom"
  /\ dModal # NoNode
  /\ dModal' = NoNode
  /\ UNCHANGED <<impl, seen, dProgress, dUnlocked, dStore, dView, reactVars, edits>>
  /\ last' = NoHandler

----------------------------------------------------------------------------
(* react_app.js *)

\* computeUnlocks(nodes) following the dependencies of the dependencies
computeUnlocksReactTransitive(nodes) ==
  [id \in Ids |->
     [progress |-> nodes[id].progress,
      unlocked |-> UnlockedTransitively([n \in Ids |-> nodes[n].progress], id)]]

\* computeUnlocks(nodes): the nodes with their unlocked flags set
computeUnlocksReact(nodes) ==
  [id \in Ids |->
     LET deps == initialNodes[id].dependencies
         unlocked == \A k \in 1..Len(deps) :
                       /\ deps[k] \in DOMAIN nodes
                       /\ GreaterEq(nodes[deps[k]].progress, UnlockThreshold)
     IN IF Len(deps) = 0 THEN [progress |-> nodes[id].progress, unlocked |-> TRUE]
        ELSE [progress |-> nodes[id].progress, unlocked |-> unlocked]]

\* the useState initialiser of nodes
loadNodes(store) ==
  computeUnlocksReact(
    [id \in Ids |->
       [progress |-> IF store[id] # NoItem THEN ParseInt(store[id])
                     ELSE initialNodes[id].progress,
        unlocked |-> FALSE]])

\* ReactDOM.render on DOMContentLoaded; a reload drops every read in flight
ReactMount ==
  /\ impl = "react"
  /\ rNodes' = loadNodes(rStore)
  /\ rSelected' = NoNode
  /\ rPending' = {}
  /\ rMounted' = TRUE
  /\ rView' = AppView
  /\ last' = Handler("load", NoNode, JsUndefined, NoFile, TRUE, "ok", "ok",
                     rNodes' # rNodes)
  /\ UNCHANGED <<impl, seen, domVars, rStore, rDownload, rExported, edits>>

\* the click handler of a node: setSelectedNode(orig) when orig.unlocked.  The
\* modal overlay covers the page while it is shown.
ReactClick(id) ==
  /\ impl = "react"
  /\ rMounted
  /\ rSelected = NoNode
  /\ rNodes[id].unlocked
  /\ rSelected' = id
  /\ UNCHANGED <<impl, seen, domVars, rNodes, rStore, rPending, rMounted, rDownload, rExported, rView, edits>>
  /\ last' = NoHandler

\* updateProgress clamping its argument the way the import does
updateProgressNodesClamped(nodes, id, newProgress) ==
  computeUnlocksReact(
    [n \in Ids |-> IF n = id
                   THEN [nodes[n] EXCEPT !.progress = MathMax(0, MathMin(100, newProgress))]
                   ELSE nodes[n]])

\* updateProgress(id, newProgress): the nodes after the setNodes updater
updateProgressNodes(nodes, id, newProgress) ==
  computeUnlocksReact(
    [n \in Ids |-> IF n = id THEN [nodes[n] EXCEPT !.progress = newProgress]
                   ELSE nodes[n]])

\* updateProgress written to store only a truthy progress
updateProgressStoreSkipZero(store, id, newProgress) ==
  IF newProgress = Num(0) THEN store ELSE [store EXCEPT ![id] = String(newProgress)]

\* updateProgress(id, newProgress): localStorage after the setNodes updater
updateProgressStore(store, id, newProgress) ==
  [store EXCEPT ![id] = String(newProgress)]

\* onChange of the modal's select: updateProgress(node.id, newVal); onClose()
ModalChange(v) ==
  LET newVal == ParseInt(String(Num(v)))
  IN /\ rNodes' = updateProgressNodes(rNodes, rSelected, newVal)
     /\ rStore' = updateProgressStore(rStore, rSelected, newVal)
     /\ rSelected' = NoNode
     /\ rView' = useEffect(rView)
     /\ last' = Handler("select", rSelected, Num(v), NoFile,
                        rNodes[rSelected].unlocked, "ok", "ok",
                        rNodes' # rNodes)

ReactSelect(v) ==
  /\ impl = "react"
  /\ rMounted
  /\ rSelected # NoNode
  /\ ModalChange(v)
  /\ UNCHANGED <<impl, seen, domVars, rPending, rMounted, rDownload, rExported, edits>>

\* the same, in a session that counts its progress selections
ReactSelectCounted(v) ==
  /\ impl = "react"
  /\ rMounted
  /\ rSelected # NoNode
  /\ edits < MaxEdits
  /\ ModalChange(v)
  /\ edits' = edits + 1
  /\ UNCHANGED <<impl, seen, domVars, rPending, rMounted, rDownload, rExported>>

\* onClose of the modal: setSelectedNode(null)
ReactClose ==
  /\ impl = "react"
  /\ rMounted
  /\ rSelected # NoNode
  /\ rSelected' = NoNode
  /\ UNCHANGED <<impl, seen, domVars, rNodes, rStore, rPending, rMounted, rDownload, rExported, rView, edits>>
  /\ last' = NoHandler

----------------------------------------------------------------------------
(* react_app.js: import and export.  A file is what JSON.parse makes of its  *)
(* text: a SyntaxError ("invalid"), a value that is no array ("value"), or   *)
(* an array of objects, each with or without an id and a progress.           *)

Entry(id, progress) == [hasId |-> TRUE, id |-> id, progress |-> progress]
EntryNoId(progress) == [hasId |-> FALSE, id |-> "", progress |-> progress]
ArrayFile(entries) == [json |-> "array", entries |-> entries]

FileInvalid == [json |-> "invalid", entries |-> <<>>]
FileNotArray == [json |-> "value", entries |-> <<>>]
FileUnknownId == ArrayFile(<<Entry("nonexistent", Num(50))>>)
FileMixed ==
  ArrayFile(<<EntryNoId(Num(100)), Entry("basics", JsString),
              Entry("datastructures", JsNull), Entry("algorithms", JsUndefined),
              Entry("graphs", JsObject), Entry("machinelearning", Num(100)),
              Entry("basics", Num(75))>>)
FileNumbers ==
  ArrayFile(<<Entry("basics", Num(150)), Entry("algorithms", Num(-10)),
              Entry("datastructures", Frac(75, 5)), Entry("basics", Num(0))>>)

\* the files a user picks in the file chooser
Files == {FileInvalid, FileNotArray, FileUnknownId, FileMixed, FileNumbers}

\* arr.find(entry => entry.id === id): the index of the first match, 0 for none
FindEntry(arr, id) ==
  LET found == {k \in 1..Len(arr) : arr[k].hasId /\ arr[k].id = id}
  IN IF found = {} THEN 0 ELSE CHOOSE k \in found : \A j \in found : k <= j

\* the match tested without the typeof check
MatchesAnyType(arr, id) == FindEntry(arr, id) # 0

\* match && typeof match.progress === 'number'
Matches(arr, id) ==
  /\ FindEntry(arr, id) # 0
  /\ TypeOf(arr[FindEntry(arr, id)].progress) = "number"

\* the matched progress taken as it is
NewProgUnclamped(arr, id) == arr[FindEntry(arr, id)].progress

\* Math.max(0, Math.min(100, match.progress))
NewProg(arr, id) == MathMax(0, MathMin(100, arr[FindEntry(arr, id)].progress))

\* the updater mapping over initialNodes instead of prev: a topic the
\* snapshot does not name falls back to its default
importNodesReplacing(prev, arr) ==
  computeUnlocksReact(
    [n \in Ids |->
       IF Matches(arr, n) THEN [prev[n] EXCEPT !.progress = NewProg(arr, n)]
       ELSE [prev[n] EXCEPT !.progress = initialNodes[n].progress]])

\* the setNodes updater of reader.onload: the nodes it returns
importNodes(prev, arr) ==
  computeUnlocksReact(
    [n \in Ids |-> IF Matches(arr, n) THEN [prev[n] EXCEPT !.progress = NewProg(arr, n)]
                   ELSE prev[n]])

\* the setNodes updater of reader.onload: localStorage after its setItem calls
importStore(store, arr) ==
  [n \in Ids |-> IF Matches(arr, n) THEN String(NewProg(arr, n)) ELSE store[n]]

\* the export leaving out the nodes whose progress is falsy (0)
exportProgressNonZero(nodes) ==
  ArrayFile(SelectSeq([k \in 1..Len(Order) |-> Entry(Order[k], nodes[Order[k]].progress)],
                      LAMBDA e : e.progress # Num(0)))

\* exportProgress(): JSON.stringify of the {id, progress} of every node, as
\* JSON.parse reads it back (JSON has no NaN: it is written as null)
exportProgress(nodes) ==
  ArrayFile([k \in 1..Len(Order) |->
               Entry(Order[k], IF nodes[Order[k]].progress.t = "NaN" THEN JsNull
                               ELSE nodes[Order[k]].progress)])

\* importProgress(): the Import button, a file picked, reader.readAsText(file)
ChooseFile(file) ==
  /\ impl = "react"
  /\ rMounted
  /\ rSelected = NoNode
  /\ Cardinality(rPending) < MaxPending
  /\ rPending' = rPending \cup {file}
  /\ last' = NoHandler
  /\ UNCHANGED <<impl, seen, domVars, rNodes, rStore, rSelected, rMounted, rDownload, rExported, rView>>

ReactChooseFile(file) ==
  /\ ChooseFile(file)
  /\ UNCHANGED edits

\* the same, in a session that counts a picked file among its edits
ReactChooseFileCounted(file) ==
  /\ edits < MaxEdits
  /\ edits' = edits + 1
  /\ ChooseFile(file)

\* reader.onload for a file in flight
ReactOnload(file) ==
  /\ impl = "react"
  /\ rMounted
  /\ file \in rPending
  /\ rPending' = rPending \ {file}
  /\ rNodes' = IF file.json = "array" THEN importNodes(rNodes, file.entries) ELSE rNodes
  /\ rStore' = IF file.json = "array" THEN importStore(rStore, file.entries) ELSE rStore
  /\ rView' = IF file.json = "array" THEN useEffect(rView) ELSE rView
  /\ last' = Handler("import", NoNode, JsUndefined, file, TRUE, "ok",
                     CASE file.json = "invalid" -> "console.error"
                       [] file.json = "value" -> "returned"
                       [] OTHER -> "ok",
                     rNodes' # rNodes)
  /\ UNCHANGED <<impl, seen, domVars, rSelected, rMounted, rDownload, rExported, edits>>

\* the Export button
ReactExport ==
  /\ impl = "react"
  /\ rMounted
  /\ rSelected = NoNode
  /\ rDownload' = exportProgress(rNodes)
  /\ rExported' = rNodes
  /\ UNCHANGED <<impl, seen, domVars, rNodes, rStore, rSelected, rPending, rMounted, rView, edits>>
  /\ last' = NoHandler

\* the Import button, the downloaded file picked
ReactChooseDownload ==
  /\ rDownload # NoFile
  /\ ChooseFile(rDownload)
  /\ UNCHANGED edits

----------------------------------------------------------------------------
(* The navigation bar and the drag handlers.  The overlay covers both while *)
(* the modal is shown.                                                      *)

\* the change listeners of #toggle-links: every renderGraph so far added one,
\* and the one added last sets the class of the svg now shown
DomToggleLinks ==
  /\ impl = "dom"
  /\ dModal = NoNode
  /\ dView' = [dView EXCEPT !.links = ~dView.links, !.hiddenLinks = dView.links]
  /\ last' = NoHandler
  /\ UNCHANGED <<impl, seen, dProgress, dUnlocked, dStore, dModal, reactVars, edits>>

\* #toggle-active changed: applyFilters
DomToggleActive ==
  /\ impl = "dom"
  /\ dModal = NoNode
  /\ dView' = [dView EXCEPT !.active = ~dView.active]
  /\ last' = NoHandler
  /\ UNCHANGED <<impl, seen, dProgress, dUnlocked, dStore, dModal, reactVars, edits>>

\* #toggle-completed changed: applyFilters
DomToggleCompleted ==
  /\ impl = "dom"
  /\ dModal = NoNode
  /\ dView' = [dView EXCEPT !.completed = ~dView.completed]
  /\ last' = NoHandler
  /\ UNCHANGED <<impl, seen, dProgress, dUnlocked, dStore, dModal, reactVars, edits>>

\* a node dragged and dropped: start, drag, end set and clear d.fx and d.fy
DomDrag(id) ==
  /\ impl = "dom"
  /\ dModal = NoNode
  /\ dView' = [dView EXCEPT !.dragged = id]
  /\ last' = NoHandler
  /\ UNCHANGED <<impl, seen, dProgress, dUnlocked, dStore, dModal, reactVars, edits>>

\* setShowActive(v => !v), and the effect drawing the graph again
ReactToggleActive ==
  /\ impl = "react"
  /\ rMounted
  /\ rSelected = NoNode
  /\ rView' = useEffect([rView EXCEPT !.showActive = ~rView.showActive])
  /\ last' = NoHandler
  /\ UNCHANGED <<impl, seen, domVars, rNodes, rStore, rSelected, rPending, rMounted,
                 rDownload, rExported, edits>>

\* setShowCompleted(v => !v), and the effect drawing the graph again
ReactToggleCompleted ==
  /\ impl = "react"
  /\ rMounted
  /\ rSelected = NoNode
  /\ rView' = useEffect([rView EXCEPT !.showCompleted = ~rView.showCompleted])
  /\ last' = NoHandler
  /\ UNCHANGED <<impl, seen, domVars, rNodes, rStore, rSelected, rPending, rMounted,
                 rDownload, rExported, edits>>

\* setShowDependencies(v => !v), and the effect drawing the graph again
ReactToggleDependencies ==
  /\ impl = "react"
  /\ rMounted
  /\ rSelected = NoNode
  /\ rView' = useEffect([rView EXCEPT !.showDependencies = ~rView.showDependencies])
  /\ last' = NoHandler
  /\ UNCHANGED <<impl, seen, domVars, rNodes, rStore, rSelected, rPending, rMounted,
                 rDownload, rExported, edits>>

\* a node of the drawn copies dragged and dropped
ReactDrag(id) ==
  /\ impl = "react"
  /\ rMounted
  /\ rSelected = NoNode
  /\ rView' = [rView EXCEPT !.dragged = id]
  /\ last' = NoHandler
  /\ UNCHANGED <<impl, seen, domVars, rNodes, rStore, rSelected, rPending, rMounted,
                 rDownload, rExported, edits>>

----------------------------------------------------------------------------
(* localStorage.setItem throwing (the quota is used up, storage is denied) *)

\* select.onchange when saveProgress throws: node.progress is already set, and
\* the handler's remaining statements do not run
DomSelectThrows(v) ==
  /\ impl = "dom"
  /\ dModal # NoNode
  /\ edits < MaxEdits
  /\ edits' = edits + 1
  /\ dProgress' = [dProgress EXCEPT ![dModal] = ParseInt(String(Num(v)))]
  /\ last' = Handler("select", dModal, Num(v), NoFile, dUnlocked[dModal], "fails",
                     "uncaught", dProgress' # dProgress)
  /\ UNCHANGED <<impl, seen, dUnlocked, dStore, dModal, dView, reactVars>>

\* the setNodes updater of updateProgress when setItem throws: it returns no
\* state, the error leaves the render, and React unmounts the tree
ReactSelectThrows(v) ==
  /\ impl = "react"
  /\ rMounted
  /\ rSelected # NoNode
  /\ edits < MaxEdits
  /\ edits' = edits + 1
  /\ rMounted' = FALSE
  /\ rSelected' = NoNode
  /\ rPending' = {}
  /\ last' = Handler("select", rSelected, Num(v), NoFile,
                     rNodes[rSelected].unlocked, "fails", "uncaught", FALSE)
  /\ UNCHANGED <<impl, seen, domVars, rNodes, rStore, rDownload, rExported, rView>>

----------------------------------------------------------------------------
(* The update code driven with any integer, not only the select's options *)

AnyValues == {-10, 0, 75, 150}

\* select.onchange with select.value the string of any integer
DomSelectAny(v) == DomSelect(v)

\* updateProgress(id, v) called with any id and integer
ReactUpdateProgress(id, v) ==
  /\ impl = "react"
  /\ rMounted
  /\ rNodes' = updateProgressNodes(rNodes, id, Num(v))
  /\ rStore' = updateProgressStore(rStore, id, Num(v))
  /\ rView' = useEffect(rView)
  /\ last' = Handler("select", id, Num(v), NoFile, rNodes[id].unlocked, "ok", "ok",
                     rNodes' # rNodes)
  /\ UNCHANGED <<impl, seen, domVars, rSelected, rPending, rMounted, rDownload, rExported, edits>>

----------------------------------------------------------------------------
(* Specifications *)

EmptyStore == [id \in Ids |-> NoItem]

\* a first visit: nothing stored, the page loaded
Init ==
  /\ impl \in {"dom", "react"}
  /\ dStore = EmptyStore
  /\ dProgress = loadProgress(EmptyStore)
  /\ dUnlocked = computeUnlocks(dProgress)
  /\ dModal = NoNode
  /\ dView = PageView
  /\ rStore = EmptyStore
  /\ rNodes = loadNodes(EmptyStore)
  /\ rSelected = NoNode
  /\ rPending = {}
  /\ rMounted = TRUE
  /\ rDownload = NoFile
  /\ rExported = loadNodes(EmptyStore)
  /\ rView = AppView
  /\ seen = NoSeen
  /\ edits = 0
  /\ last = NoHandler

DomNext ==
  \/ DomLoad
  \/ \E id \in Ids : DomClick(id)
  \/ \E v \in UserChoices : DomSelect(v)
  \/ DomClose

ReactNext ==
  \/ ReactMount
  \/ \E id \in Ids : ReactClick(id)
  \/ \E v \in UserChoices : ReactSelect(v)
  \/ ReactClose
  \/ \E file \in Files : ReactChooseFile(file)
  \/ \E file \in Files : ReactOnload(file)

Next == DomNext \/ ReactNext

\* both pages, used through their controls, storage working
Spec == Init /\ [][Next]_vars

\* a React session that exports and imports its own snapshot
NextRoundTrip ==
  \/ \E id \in Ids : ReactClick(id)
  \/ \E v \in UserChoices : ReactSelectCounted(v)
  \/ ReactClose
  \/ ReactExport
  \/ ReactChooseDownload
  \/ ReactChooseFileCounted(FileNumbers)
  \/ \E file \in rPending : ReactOnload(file)

SpecRoundTrip == Init /\ [][NextRoundTrip]_vars

\* both pages with a storage whose writes may throw
NextFail ==
  \/ DomLoad
  \/ \E id \in Ids : DomClick(id)
  \/ \E v \in UserChoices : DomSelectCounted(v)
  \/ DomClose
  \/ ReactMount
  \/ \E id \in Ids : ReactClick(id)
  \/ \E v \in UserChoices : ReactSelectCounted(v)
  \/ ReactClose
  \/ \E v \in UserChoices : DomSelectThrows(v)
  \/ \E v \in UserChoices : ReactSelectThrows(v)

SpecFail == Init /\ [][NextFail]_vars

\* the update code of both pages given any integer
NextStore ==
  \/ \E id \in Ids : DomClick(id)
  \/ \E v \in AnyValues : DomSelectAny(v)
  \/ DomClose
  \/ \E id \in Ids, v \in AnyValues : ReactUpdateProgress(id, v)

SpecStore == Init /\ [][NextStore]_vars

\* the two pages side by side on their own keys, nothing stored yet
InitBoth ==
  /\ impl = "both"
  /\ dStore = EmptyStore
  /\ dProgress = loadProgress(EmptyStore)
  /\ dUnlocked = computeUnlocks(dProgress)
  /\ dModal = NoNode
  /\ dView = PageView
  /\ rStore = EmptyStore
  /\ rNodes = loadNodes(EmptyStore)
  /\ rSelected = NoNode
  /\ rPending = {}
  /\ rMounted = TRUE
  /\ rDownload = NoFile
  /\ rExported = loadNodes(EmptyStore)
  /\ rView = AppView
  /\ seen = NoSeen
  /\ edits = 0
  /\ last = NoHandler

\* the same progress selection made on both pages: the node clicked (the
\* modal opens when the page has it unlocked) and the option v chosen
BothSelect(id, v) ==
  /\ impl = "both"
  /\ dUnlocked[id] \/ rNodes[id].unlocked
  /\ LET newVal == ParseInt(String(Num(v)))
     IN /\ dProgress' = IF dUnlocked[id] THEN [dProgress EXCEPT ![id] = newVal]
                         ELSE dProgress
        /\ dStore' = IF dUnlocked[id] THEN saveProgress(dStore, id, dProgress'[id])
                      ELSE dStore
        /\ dUnlocked' = IF dUnlocked[id] THEN computeUnlocks(dProgress') ELSE dUnlocked
        /\ dView' = IF dUnlocked[id] THEN renderGraph(dView) ELSE dView
        /\ rNodes' = IF rNodes[id].unlocked THEN updateProgressNodes(rNodes, id, newVal)
                      ELSE rNodes
        /\ rStore' = IF rNodes[id].unlocked THEN updateProgressStore(rStore, id, newVal)
                      ELSE rStore
        /\ rView' = IF rNodes[id].unlocked THEN useEffect(rView) ELSE rView
  /\ last' = Handler("select", id, Num(v), NoFile,
                     dUnlocked[id] /\ rNodes[id].unlocked, "ok", "ok",
                     dProgress' # dProgress \/ rNodes' # rNodes)
  /\ UNCHANGED <<impl, seen, dModal, rSelected, rPending, rMounted, rDownload, rExported,
                 edits>>

\* both pages reloaded
BothReload ==
  /\ impl = "both"
  /\ dProgress' = loadProgress(dStore)
  /\ dUnlocked' = computeUnlocks(dProgress')
  /\ dView' = PageView
  /\ rNodes' = loadNodes(rStore)
  /\ rView' = AppView
  /\ last' = Handler("load", NoNode, JsUndefined, NoFile, TRUE, "ok", "ok",
                     dProgress' # dProgress \/ rNodes' # rNodes)
  /\ UNCHANGED <<impl, seen, dStore, dModal, rStore, rSelected, rPending, rMounted,
                 rDownload, rExported, edits>>

NextBoth ==
  \/ \E id \in Ids, v \in UserChoices : BothSelect(id, v)
  \/ BothReload

SpecBoth == InitBoth /\ [][NextBoth]_vars

\* both pages with every control of the page in use: the graph, the modal,
\* the checkboxes, Export and Import, and the reload button of the browser
NextView ==
  \/ DomLoad
  \/ \E id \in Ids : DomClick(id)
  \/ \E v \in UserChoices : DomSelectCounted(v)
  \/ DomClose
  \/ DomToggleLinks
  \/ DomToggleActive
  \/ DomToggleCompleted
  \/ \E id \in Ids : DomDrag(id)
  \/ ReactMount
  \/ \E id \in Ids : ReactClick(id)
  \/ \E v \in UserChoices : ReactSelectCounted(v)
  \/ ReactClose
  \/ ReactToggleActive
  \/ ReactToggleCompleted
  \/ ReactToggleDependencies
  \/ \E id \in Ids : ReactDrag(id)
  \/ ReactExport
  \/ ReactChooseFileCounted(FileNumbers)
  \/ \E file \in rPending : ReactOnload(file)

SpecView == Init /\ [][NextView]_vars

\* the two values on either side of the comparison of computeUnlocks
BoundaryValues == {74, 75}

\* a snapshot with progress at the threshold and just below it
FileBoundary ==
  ArrayFile(<<Entry("basics", Num(75)), Entry("datastructures", Num(75)),
              Entry("algorithms", Num(74))>>)

\* the update code of both pages given the boundary values, and the React
\* import given them in a snapshot
NextThreshold ==
  \/ \E id \in Ids : DomClick(id)
  \/ \E v \in BoundaryValues : DomSelectAny(v)
  \/ DomClose
  \/ \E id \in Ids, v \in BoundaryValues : ReactUpdateProgress(id, v)
  \/ ReactChooseFile(FileBoundary)
  \/ \E file \in rPending : ReactOnload(file)

SpecThreshold == Init /\ [][NextThreshold]_vars

\* the values picked in the sessions that keep an earlier state
PairChoices == {v \in SelectOptions : v \in {0, 100}}

\* the state of the loaded page is kept, to be compared with a later one
Observe ==
  /\ dModal = NoNode
  /\ rSelected = NoNode
  /\ seen' = [kept |-> TRUE,
              progress |-> [id \in Ids |->
                              IF impl = "dom" THEN dProgress[id] ELSE rNodes[id].progress],
              unlocked |-> [id \in Ids |->
                              IF impl = "dom" THEN dUnlocked[id] ELSE rNodes[id].unlocked]]
  /\ seen' # seen
  /\ UNCHANGED <<impl, domVars, reactVars, edits, last>>

\* both pages, with one earlier state of the session kept beside the current one
NextPair ==
  \/ \E id \in Ids : DomClick(id)
  \/ \E v \in PairChoices : DomSelect(v)
  \/ DomClose
  \/ \E id \in Ids : ReactClick(id)
  \/ \E v \in PairChoices : ReactSelect(v)
  \/ ReactClose
  \/ Observe

SpecPair == Init /\ [][NextPair]_vars

----------------------------------------------------------------------------
(* The state of the page that is loaded *)

Progress(id) == IF impl = "dom" THEN dProgress[id] ELSE rNodes[id].progress
Unlocked(id) == IF impl = "dom" THEN dUnlocked[id] ELSE rNodes[id].unlocked
Stored(id) == IF impl = "dom" THEN dStore[id] ELSE rStore[id]
Prerequisites(id) ==
  IF impl = "dom" THEN knowledgeGraph[id].dependencies ELSE initialNodes[id].dependencies

\* every prerequisite of id is a known topic at 75 or more
PrerequisitesMet(id) ==
  \A k \in 1..Len(Prerequisites(id)) :
    LET p == Prerequisites(id)[k]
    IN p \in Ids /\ Progress(p).t = "number" /\ Progress(p).i >= 75

\* max(0, min(100, v))
Clamped(v) ==
  IF v.t # "number" THEN v
  ELSE IF v.i >= 100 THEN Num(100)
  ELSE IF v.i < 0 THEN Num(0) ELSE v

----------------------------------------------------------------------------
(* Claims *)

\* C1: in both pages, after every operation (load, progress selection,
\* import), a topic is unlocked exactly when each of its prerequisites is a
\* known topic whose progress is at least 75: no flag is stale.
C1_FlagsFollowProgress ==
  \A id \in Ids : Unlocked(id) <=> PrerequisitesMet(id)

\* a selection has just locked two topics again while a third stays unlocked
C1_Witness ==
  /\ last.op = "select"
  /\ last.changed
  /\ Unlocked("machinelearning")
  /\ ~Unlocked("graphs")
  /\ ~Unlocked("datastructures")

\* C2 as stated: the progress update clamps its value to [0, 100], in memory
\* and in storage, for every integer.
C2_UpdateClamps ==
  last.op = "select" =>
    /\ Progress(last.id) = Clamped(last.val)
    /\ Stored(last.id) = String(Clamped(last.val))

\* C2 as amended: the progress update keeps the integer it is given, in memory
\* and (as its decimal string) in storage, without clamping it; the two agree
\* with max(0, min(100, v)) exactly for the values within [0, 100].
C2_UpdateKeepsValue ==
  last.op = "select" =>
    /\ Progress(last.id) = last.val
    /\ Stored(last.id) = String(last.val)
    /\ ParseInt(Stored(last.id)) = last.val
    /\ (Progress(last.id) = Clamped(last.val)) <=> (last.val.i >= 0 /\ last.val.i <= 100)

\* an update with 150 has been made and 150 is what is kept
C2_Witness ==
  /\ last.op = "select"
  /\ last.val = Num(150)
  /\ Progress(last.id) = Num(150)
  /\ Stored(last.id) = <<"1", "5", "0">>

\* C3: when the storage write fails during a progress update, the new value
\* still applies in memory, the flags are recomputed for it, and the failure
\* does not leave the update (no crash).
C3_StorageFailureTolerated ==
  (last.op = "select" /\ last.storage = "fails") =>
    /\ last.out # "uncaught"
    /\ Progress(last.id) = last.val
    /\ \A id \in Ids : Unlocked(id) <=> PrerequisitesMet(id)
    /\ impl = "react" => rMounted

\* reader.onload has just run for the file f that was in flight
Delivered(f) ==
  /\ f \in rPending
  /\ f \notin rPending'
  /\ last'.op = "import"
  /\ last'.file = f

\* entry k of f names a known topic
Known(f, k) == f.entries[k].hasId /\ f.entries[k].id \in Ids

\* entry k of f names a known topic that no entry before it names
First(f, k) ==
  /\ Known(f, k)
  /\ \A j \in 1..(k - 1) : ~(f.entries[j].hasId /\ f.entries[j].id = f.entries[k].id)

Numeric(f, k) == f.entries[k].progress.t = "number"

\* the import has set the topic of entry k to that entry's progress, clamped
Applied(f, k) ==
  LET n == f.entries[k].id
  IN /\ rNodes'[n].progress = Clamped(f.entries[k].progress)
     /\ rStore'[n] = String(Clamped(f.entries[k].progress))

\* the import has left topic n as it was, in memory and in storage
Untouched(n) ==
  /\ rNodes'[n].progress = rNodes[n].progress
  /\ rStore'[n] = rStore[n]

\* not JSON, not an array, or an array with an entry that has no id
Malformed(f) ==
  \/ f.json \in {"invalid", "value"}
  \/ \E k \in 1..Len(f.entries) : ~f.entries[k].hasId

\* C4: importing a malformed snapshot (not JSON, not an array, or
\* an array with an entry that has no id) ends in a reported parse error and
\* changes no progress, flag or stored value.
C4_MalformedImportRejected ==
  [][\A f \in rPending :
       (Delivered(f) /\ Malformed(f)) =>
         /\ rNodes' = rNodes
         /\ rStore' = rStore
         /\ last'.out = "console.error"]_vars

\* C5: a locked topic is never open in the detail panel and never has its
\* progress updated: the panel is open only for a topic that is unlocked now,
\* and an update is applied only to a topic unlocked at that moment.
C5_LockedNeverOpenedOrUpdated ==
  /\ dModal # NoNode => dUnlocked[dModal]
  /\ rSelected # NoNode => rNodes[rSelected].unlocked
  /\ last.op = "select" => last.unl

\* C6: a reload (memory rebuilt from the static defaults and the stored keys)
\* leaves every topic's progress and unlocked flag as they were just before
\* it, and a topic with no stored key has its static default.
C6_ReloadPreserves ==
  [][last'.op = "load" =>
       \A id \in Ids :
         /\ Progress(id)' = Progress(id)
         /\ Unlocked(id)' = Unlocked(id)
         /\ Stored(id) = NoItem => Progress(id)' = Num(0)]_vars

\* C7: importing the snapshot exported in state S, after any progress
\* selections made since, gives every topic the progress and the flag it had
\* in S.
C7_RoundTrip ==
  [][(rDownload # NoFile /\ Delivered(rDownload)) =>
       \A id \in Ids : rNodes'[id] = rExported[id]]_vars

\* the exported snapshot was imported back, undid what was changed since the
\* export and unlocked a topic again
C7_Witness ==
  /\ last.op = "import"
  /\ last.file = rDownload
  /\ last.changed
  /\ rNodes = rExported
  /\ rNodes["basics"].progress = Num(100)
  /\ rNodes["datastructures"].unlocked
  /\ rNodes["machinelearning"].unlocked = FALSE

\* C8: an import changes only the topics its snapshot names: an entry whose
\* id is no known topic changes nothing and raises no error, and a topic no
\* entry names keeps its progress and its stored value.
C8_ImportFrame ==
  [][\A f \in rPending :
       (Delivered(f) /\ f.json = "array") =>
         /\ last'.out = "ok"
         /\ \A n \in Ids :
              (\A k \in 1..Len(f.entries) :
                 ~(f.entries[k].hasId /\ f.entries[k].id = n))
              => Untouched(n)
         /\ (\A k \in 1..Len(f.entries) : ~Known(f, k))
            => (rNodes' = rNodes /\ rStore' = rStore)]_vars

\* a snapshot naming three topics was imported and the other two kept the
\* values set before
C8_Witness ==
  /\ last.op = "import"
  /\ last.file = FileNumbers
  /\ last.changed
  /\ rNodes["graphs"].progress = Num(75)
  /\ rStore["graphs"] = <<"7", "5">>
  /\ rNodes["machinelearning"].progress = Num(100)

\* C9 as stated: every entry with a known id and a numeric progress p leaves
\* its topic at max(0, min(100, p)), in memory and in storage.
C9_EveryEntryClamped ==
  [][\A f \in rPending :
       (Delivered(f) /\ f.json = "array") =>
         \A k \in 1..Len(f.entries) :
           (Known(f, k) /\ Numeric(f, k)) => Applied(f, k)]_vars

\* C9 as amended: the first entry with a known id, when its progress p is a
\* number, leaves its topic at max(0, min(100, p)), in memory and in storage
\* (later entries with the same id are not read).
C9_FirstEntryClamped ==
  [][\A f \in rPending :
       (Delivered(f) /\ f.json = "array") =>
         \A k \in 1..Len(f.entries) :
           (First(f, k) /\ Numeric(f, k)) => Applied(f, k)]_vars

\* 150 was imported as 100 and -10 as 0
C9_Witness ==
  /\ last.op = "import"
  /\ last.file = FileNumbers
  /\ last.changed
  /\ rNodes["basics"].progress = Num(100)
  /\ rStore["basics"] = <<"1", "0", "0">>
  /\ rNodes["algorithms"].progress = Num(0)
  /\ rStore["algorithms"] = <<"0">>

\* some entry of f names a known topic with a progress that is no number
HasNonNumber(f) ==
  \E k \in 1..Len(f.entries) : Known(f, k) /\ ~Numeric(f, k)

\* C10 as stated: in a snapshot with an entry for a known topic whose progress
\* is no number, that topic is left as it was and every other valid entry is
\* still applied.
C10_NonNumberDropped ==
  [][\A f \in rPending :
       (Delivered(f) /\ f.json = "array" /\ HasNonNumber(f)) =>
         \A k \in 1..Len(f.entries) :
           /\ (Known(f, k) /\ ~Numeric(f, k)) => Untouched(f.entries[k].id)
           /\ (Known(f, k) /\ Numeric(f, k)) => Applied(f, k)]_vars

\* C10 as amended: an entry that is the first with its id and whose progress
\* is no number leaves its topic as it was (a later entry with the same id is
\* not read), and the first entry of every other id is still applied.
C10_FirstNonNumberDropped ==
  [][\A f \in rPending :
       (Delivered(f) /\ f.json = "array" /\ HasNonNumber(f)) =>
         \A k \in 1..Len(f.entries) :
           /\ (First(f, k) /\ ~Numeric(f, k)) => Untouched(f.entries[k].id)
           /\ (First(f, k) /\ Numeric(f, k)) => Applied(f, k)]_vars

\* string, null, missing and object progress were skipped, the valid entry
\* of the same snapshot was applied
C10_Witness ==
  /\ last.op = "import"
  /\ last.file = FileMixed
  /\ last.changed
  /\ rNodes["basics"].progress = Num(100)
  /\ rNodes["datastructures"].progress = Num(75)
  /\ rNodes["algorithms"].progress = Num(75)
  /\ rNodes["graphs"].progress = Num(100)
  /\ rNodes["machinelearning"].progress = Num(100)

\* topic t lists p among its prerequisites
Lists(t, p) == \E k \in 1..Len(Prerequisites(t)) : Prerequisites(t)[k] = p

\* this step is a progress selection that takes p from 75 or more to below 75
Lowers(p) ==
  /\ last'.op = "select"
  /\ last'.id = p
  /\ GreaterEq(Progress(p), 75)
  /\ ~GreaterEq(Progress(p)', 75)

\* C11 as stated: lowering one prerequisite of a topic T from 75 or more to
\* below 75 makes T locked, and the flag of no topic other than T changes.
C11_OnlyThatTopicLocks ==
  [][\A t \in Ids : \A p \in Ids :
       (Lists(t, p) /\ Lowers(p)) =>
         /\ ~Unlocked(t)'
         /\ \A o \in Ids \ {t} : Unlocked(o)' = Unlocked(o)]_vars

\* C11 as amended: lowering a topic p from 75 or more to below 75 locks every
\* topic that lists p as a prerequisite, and the flag of no topic that does
\* not list p changes.
C11_OnlyDependentsLock ==
  [][\A p \in Ids :
       Lowers(p) =>
         \A t \in Ids :
           /\ Lists(t, p) => ~Unlocked(t)'
           /\ ~Lists(t, p) => Unlocked(t)' = Unlocked(t)]_vars

\* basics was just taken to 0: both topics that list it are locked, the two
\* that list only those stay unlocked
C11_Witness ==
  /\ last.op = "select"
  /\ last.id = "basics"
  /\ last.val = Num(0)
  /\ last.changed
  /\ ~Unlocked("datastructures")
  /\ ~Unlocked("algorithms")
  /\ Unlocked("graphs")
  /\ Unlocked("machinelearning")

\* C12: in any two states of a session in which every direct prerequisite of
\* a topic T has the same progress, T has the same flag, whatever the
\* progress and the flags of the other topics, the prerequisites of T's
\* prerequisites among them.
C12_FlagFromDirectPrerequisites ==
  seen.kept =>
    \A t \in Ids :
      (\A k \in 1..Len(Prerequisites(t)) :
         seen.progress[Prerequisites(t)[k]] = Progress(Prerequisites(t)[k]))
      => seen.unlocked[t] = Unlocked(t)

\* graphs is unlocked in both states, its two prerequisites at 100 in both,
\* although basics went from 100 to 0 in between and locked them
C12_Witness ==
  /\ seen.kept
  /\ seen.progress["basics"] = Num(100)
  /\ Progress("basics") = Num(0)
  /\ seen.progress["datastructures"] = Num(100)
  /\ Progress("datastructures") = Num(100)
  /\ seen.progress["algorithms"] = Num(100)
  /\ Progress("algorithms") = Num(100)
  /\ seen.unlocked["datastructures"]
  /\ ~Unlocked("datastructures")
  /\ seen.unlocked["graphs"]
  /\ Unlocked("graphs")

\* C13: the threshold is 75, inclusive: a topic whose prerequisites are all
\* at exactly 75 is unlocked, and a topic with a prerequisite at 74 is not.
C13_ThresholdInclusive ==
  \A t \in Ids :
    Len(Prerequisites(t)) > 0 =>
      /\ (\A k \in 1..Len(Prerequisites(t)) : Progress(Prerequisites(t)[k]) = Num(75))
         => Unlocked(t)
      /\ (\E k \in 1..Len(Prerequisites(t)) : Progress(Prerequisites(t)[k]) = Num(74))
         => ~Unlocked(t)

\* basics at 75 unlocks its two dependents; algorithms at 74 keeps graphs
\* (whose other prerequisite is at 75) and machinelearning locked
C13_Witness ==
  /\ Progress("basics") = Num(75)
  /\ Progress("datastructures") = Num(75)
  /\ Progress("algorithms") = Num(74)
  /\ Unlocked("datastructures")
  /\ Unlocked("algorithms")
  /\ ~Unlocked("graphs")
  /\ ~Unlocked("machinelearning")

\* C14: progress changes only by explicit user action: a step that changes
\* the progress, the flag or the stored value of any topic is a progress
\* selection or a successful import; opening and closing the panel, the
\* checkboxes, dragging, exporting (and whatever else happens) change none.
C14_OnlyExplicitChanges ==
  [][(\E id \in Ids :
        \/ Progress(id)' # Progress(id)
        \/ Unlocked(id)' # Unlocked(id)
        \/ Stored(id)' # Stored(id))
     => \/ last'.op = "select"
        \/ last'.op = "import" /\ last'.out = "ok"]_vars

\* C15: script.js and react_app.js, started from the same stored values and
\* given the same progress selections, have after every step the same
\* progress and the same flag for every topic and the same stored value
\* under their own keys.
C15_PagesAgree ==
  impl = "both" =>
    \A id \in Ids :
      /\ dProgress[id] = rNodes[id].progress
      /\ dUnlocked[id] = rNodes[id].unlocked
      /\ dStore[id] = rStore[id]

\* after selections that unlocked graphs and then took basics back to 0, both
\* pages hold the same values and have locked the same two topics
C15_Witness ==
  /\ impl = "both"
  /\ last.op = "select"
  /\ last.id = "basics"
  /\ last.val = Num(0)
  /\ last.changed
  /\ dProgress["graphs"] = Num(100)
  /\ rNodes["graphs"].progress = Num(100)
  /\ dStore["basics"] = <<"0">>
  /\ rStore["basics"] = <<"0">>
  /\ ~dUnlocked["datastructures"]
  /\ ~rNodes["datastructures"].unlocked
  /\ dUnlocked["graphs"]
  /\ rNodes["graphs"].unlocked

\* C16: the edges are hidden exactly when the links / dependencies checkbox
\* is unchecked, in every state, also after a progress update has drawn the
\* graph again.
C16_LinksFollowToggle ==
  /\ impl = "dom" => (dView.hiddenLinks <=> ~dView.links)
  /\ (impl = "react" /\ rMounted) => (rView.hiddenLinks <=> ~rView.showDependencies)

\* no entry of f names topic n
Absent(f, n) == \A k \in 1..Len(f.entries) : ~(f.entries[k].hasId /\ f.entries[k].id = n)

\* C17: in the React page a progress update made while an import is pending
\* is not lost.  When the file is delivered it is applied to the latest
\* state: a topic the snapshot does not name keeps what the update left (the
\* updated topic its new value), a topic it names takes the snapshot's value
\* (that of its first entry, clamped, when it is a number), and afterwards
\* flags, progress and stored values agree.
C17_UpdateDuringImportKept ==
  [][\A f \in rPending :
       (Delivered(f) /\ last.op = "select") =>
         /\ \A n \in Ids : Absent(f, n) => Untouched(n)
         /\ Absent(f, last.id) =>
              /\ rNodes'[last.id].progress = last.val
              /\ rStore'[last.id] = String(last.val)
         /\ \A k \in 1..Len(f.entries) :
              /\ (First(f, k) /\ Numeric(f, k)) => Applied(f, k)
              /\ (First(f, k) /\ ~Numeric(f, k)) => Untouched(f.entries[k].id)
         /\ \A n \in Ids :
              /\ rNodes'[n].unlocked <=>
                   \A k \in 1..Len(initialNodes[n].dependencies) :
                     GreaterEq(rNodes'[initialNodes[n].dependencies[k]].progress, 75)
              /\ rStore'[n] # NoItem => rStore'[n] = String(rNodes'[n].progress)
              /\ rStore'[n] = NoItem => rNodes'[n].progress = initialNodes[n].progress]_vars

\* C18: from empty storage, after any progress selections, imports and
\* reloads, the progress of every topic is an integer from 0 to 100 and every
\* stored value is the base-10 string of that integer.
C18_IntegerPercent ==
  \A id \in Ids :
    /\ IsInt(Progress(id))
    /\ Progress(id).i >= 0
    /\ Progress(id).i <= 100
    /\ Stored(id) # NoItem => Stored(id) = Digits(Progress(id).i)

====
